---- MODULE Spec2Model ----
(***************************************************************************)
(* Document pipeline: registration (lambdas/app.py), the S3 ingest handler *)
(* (lambdas/s3_ingest.py) and the DynamoDB-stream processing handler       *)
(* (lambdas/process_document.py), over one DynamoDB table, one S3 bucket,  *)
(* the bucket's object-created notifications and the table's stream.       *)
(*                                                                         *)
(* Timestamps (datetime.now(timezone.utc).isoformat()) are modelled by the *)
(* value of a clock that never runs backwards; two reads may see the same  *)
(* value.  An item of the table is a record holding exactly the attributes *)
(* the item has; the META#v1 items live in meta (keyed by the id in the    *)
(* partition key DOC#<id>) and the AUDIT#<timestamp> items in audit (keyed *)
(* by id and timestamp).  An object key is the sequence of its             *)
(* '/'-separated segments.                                                 *)
(***************************************************************************)
EXTENDS Integers, Sequences, FiniteSets, TLC

\* ------------------------------------------------------------------ bounds
MaxTime == 1
MaxBatch == 2
MaxDeliveries == 3
MaxSegments == 5
MaxRuns == 3
MaxPages == 2

IdOrder == <<"d1", "d2">>
Ids == {IdOrder[i] : i \in DOMAIN IdOrder}
Watchers == {"w1"}
Processors == {"p1", "p2"}
Times == 0..MaxTime

\* ------------------------------------------------------- program constants
BucketName == "docs-bucket"
META_SK == "META#v1"
AUDIT_SK == "AUDIT#<ts>"
Filename == "my file.pdf"
QuotedFilename == "my+file.pdf"
PROCESSING_VERSION == 1
META_VERSION == 1
PageCount == 1
PREVIEW_MAX == 500

VARIABLES
  clock,     \* the value datetime.now() returns
  meta,      \* table items with sk = META#v1, by document id
  audit,     \* table items with sk = AUDIT#<timestamp>, by <<id, timestamp>>
  objects,   \* the bucket: object key -> body; the bucket emits an
             \* object-created notification for every object put
  stream,    \* the table's stream: the change records in the order of the
             \* writes (a record equal to an earlier one is a copy of it)
  wst,       \* per ingest invocation: pc, records, index, locals
  pst,       \* per processing invocation: pc, records, index, locals
  resp,      \* the last answer of the API handler (lambdas/app.py), with
             \* the request it answers
  hist       \* history, for stating the properties: the ids registered, and
             \* per id the ingest updates applied, the conditional updates
             \* that succeeded (each 0, 1, or 2 for more), and those that
             \* succeeded since the last ingest update

vars == <<clock, meta, audit, objects, stream, wst, pst, hist, resp>>

\* ------------------------------------------------------------ object keys
OriginalKey(d) == <<"documents", d, "original", Filename>>
QuotedOriginalKey(d) == <<"documents", d, "original", QuotedFilename>>
ProcessedKey(d) == <<"documents", d, "processed", "summary.json">>
StrayKey(d) == <<"uploads", d, Filename>>

\* urllib.parse.unquote_plus on one segment: '+' decodes to a space
unquote_segment(s) == IF s = QuotedFilename THEN Filename ELSE s

unquote_plus(raw_key) == [i \in DOMAIN raw_key |-> unquote_segment(raw_key[i])]

\* urllib.parse.quote_plus, as S3 encodes the key in its notification
quote_segment(s) == IF s = Filename THEN QuotedFilename ELSE s

S3EventKey(key) == [i \in DOMAIN key |-> quote_segment(key[i])]

NoId == ""

\* the extraction without the comparison of the first segment (lines 50-51)
extract_document_id_AnyPrefix(s3_key) ==
  IF Len(s3_key) < 4 THEN NoId
  ELSE IF s3_key[2] = "" THEN NoId
  ELSE s3_key[2]

extract_document_id_from_s3_key(s3_key) ==
  IF Len(s3_key) < 4 THEN NoId
  ELSE IF s3_key[1] # "documents" THEN NoId
  ELSE IF s3_key[2] = "" THEN NoId
  ELSE s3_key[2]

\* ------------------------------------------------------------ table items
Has(item, a) == a \in DOMAIN item

\* UpdateExpression "SET ...": the named attributes are set, the others kept;
\* update_item creates the item (key attributes only) when there is none.
SetAttrs(item, new) == new @@ item

PdfBody == [kind |-> "pdf", pages |-> PageCount]

\* a body PdfReader cannot read
BrokenBody == [kind |-> "text"]

\* the S3 object-created notification record for an object key
S3Record(key) == [bucket |-> BucketName, key |-> S3EventKey(key)]

\* a notification record that names no object key
MalformedS3Record == [bucket |-> BucketName, key |-> <<>>]

\* The attributes of an item that a stream record's NewImage carries to the
\* processing handler (the ones it reads).
ImageAttrs ==
  {"pk", "sk", "status", "document_id", "filename", "bucket", "s3_key", "page_count"}

NewImageOf(item) == [a \in (DOMAIN item) \cap ImageAttrs |-> item[a]]

\* the stream record of a write: INSERT for a new key, MODIFY for an existing one
StreamRecord(existed, item) ==
  [eventName |-> IF existed THEN "MODIFY" ELSE "INSERT", NewImage |-> NewImageOf(item)]

Pk(d) == <<"DOC", d>>

\* Stream records the handler has to skip whatever they describe: a REMOVE, and
\* a record without NewImage.
RemoveRecord ==
  [eventName |-> "REMOVE",
   NewImage |-> [pk |-> Pk("d1"), sk |-> META_SK, status |-> "UPLOADED"]]

NoImageRecord == [eventName |-> "MODIFY"]

\* ------------------------------------------------------------ registration
metadata_item(d, created_at) ==
  [pk |-> Pk(d), sk |-> META_SK, document_id |-> d, filename |-> Filename,
   bucket |-> BucketName, s3_key |-> OriginalKey(d), status |-> "REGISTERED",
   version |-> META_VERSION, created_at |-> created_at, updated_at |-> created_at]

AuditItem(d, ts, event_type, details) ==
  [pk |-> Pk(d), sk |-> AUDIT_SK, document_id |-> d, event_type |-> event_type,
   timestamp |-> ts, details |-> details]

registered_audit_item(d, created_at) ==
  AuditItem(d, created_at, "DOCUMENT_REGISTERED",
            [filename |-> Filename, bucket |-> BucketName, s3_key |-> OriginalKey(d)])

\* table.put_item on an AUDIT#<ts> key: creates the item or replaces the one there
PutAudit(d, ts, item) == [k \in (DOMAIN audit) \cup {<<d, ts>>} |->
                            IF k = <<d, ts>> THEN item ELSE audit[k]]

\* the stream after the records `recs` of a write
Emit(log, recs) ==
  IF recs = <<>> \/ \E i \in DOMAIN log : log[i] = recs[1] THEN log ELSE log \o recs

\* the stream records of a put of `item` at audit key <<d, ts>> (none when the
\* put changes nothing)
AuditStream(d, ts, item) ==
  IF <<d, ts>> \in DOMAIN audit /\ audit[<<d, ts>>] = item THEN <<>>
  ELSE <<StreamRecord(<<d, ts>> \in DOMAIN audit, item)>>

PutMeta(d, item) == [k \in (DOMAIN meta) \cup {d} |-> IF k = d THEN item ELSE meta[k]]

MetaStream(d, item) ==
  IF d \in DOMAIN meta /\ meta[d] = item THEN <<>>
  ELSE <<StreamRecord(d \in DOMAIN meta, item)>>

PutObject(key, body) == [k \in (DOMAIN objects) \cup {key} |->
                           IF k = key THEN body ELSE objects[k]]

\* uuid.uuid4(): an id nothing in the system carries yet (ids are drawn in the
\* order of IdOrder, as they are interchangeable)
Used(d) == d \in DOMAIN meta \/ OriginalKey(d) \in DOMAIN objects

Fresh(d) == ~Used(d) /\ \A i \in DOMAIN IdOrder :
                         IdOrder[i] = d => \A j \in 1..(i - 1) : Used(IdOrder[j])

\* _response(status_code, body), kept with the method and the input of the
\* request; `error` names an exception the handler let through
Response(op, request, status_code, body) ==
  [op |-> op, request |-> request, statusCode |-> status_code, body |-> body, error |-> ""]

NoResponse == Response("", "", 0, <<>>)

RaisedResponse(op, request, e) == [Response(op, request, 0, <<>>) EXCEPT !.error = e]

RegistrationBody == "{\"filename\": \"my file.pdf\"}"

\* POST /documents with body {"filename": Filename}
handle_post_documents(d) ==
  /\ Fresh(d)
  /\ LET created_at == clock
         m == metadata_item(d, created_at)
         a == registered_audit_item(d, created_at)
     IN /\ meta' = PutMeta(d, m)
        /\ audit' = PutAudit(d, created_at, a)
        /\ stream' = Emit(Emit(stream, MetaStream(d, m)), AuditStream(d, created_at, a))
  /\ hist' = [hist EXCEPT !.registered = @ \cup {d}]
  /\ resp' = Response("POST", RegistrationBody, 201,
                      [document_id |-> d, bucket |-> BucketName, s3_key |-> OriginalKey(d),
                       status |-> "REGISTERED", created_at |-> clock])
  /\ UNCHANGED <<clock, objects, wst, pst>>

\* Request bodies: none, malformed JSON, JSON values that are no object, and
\* objects without filename, with a filename that is no string, with an empty
\* filename, and with the filename Filename.
RawBodies ==
  {"", "{", "[]", "null", "{}", "{\"filename\": 42}", "{\"filename\": \"\"}",
   RegistrationBody}

JSONDecodeError == [type |-> "JSONDecodeError"]

JsonStr(v) == [type |-> "str", value |-> v]

JsonDict(v) == [type |-> "dict", value |-> v]

\* json.loads
json_loads(raw) ==
  CASE raw = "[]" -> [type |-> "list", value |-> <<>>]
    [] raw = "null" -> [type |-> "NoneType"]
    [] raw = "{}" -> JsonDict(<<>>)
    [] raw = "{\"filename\": 42}" -> JsonDict([filename |-> [type |-> "int", value |-> 42]])
    [] raw = "{\"filename\": \"\"}" -> JsonDict([filename |-> JsonStr("")])
    [] raw = RegistrationBody -> JsonDict([filename |-> JsonStr(Filename)])
    [] OTHER -> JSONDecodeError

\* lines 102-110 of _handle_post_documents: "400" for a body that is no JSON
\* or has no non-empty string filename, "AttributeError" for a JSON value
\* without .get, "ok" otherwise
body_check(request) ==
  LET raw_body == IF request = "" THEN "{}" ELSE request
      body == json_loads(raw_body)
  IN IF body = JSONDecodeError THEN "400"
     ELSE IF body.type # "dict" THEN "AttributeError"
     ELSE IF ~Has(body.value, "filename") THEN "400"
     ELSE IF body.value.filename.type # "str" \/ body.value.filename.value = "" THEN "400"
     ELSE "ok"

\* POST /documents with any body: lines 87-160
PostDocuments(request, d) ==
  LET outcome == body_check(request)
  IN IF outcome = "ok" THEN handle_post_documents(d)
     ELSE /\ resp' = IF outcome = "400"
                     THEN Response("POST", request, 400, [error |-> "bad request"])
                     ELSE RaisedResponse("POST", request, outcome)
          /\ UNCHANGED <<clock, meta, audit, objects, stream, wst, pst, hist>>

\* pathParameters of a GET request: none, document_id (empty, of a document,
\* of none), or proxy
PathParameters ==
  {<<>>} \cup {[document_id |-> d] : d \in Ids \cup {""}}
         \cup {[proxy |-> d] : d \in Ids}

\* the lookup without the fallback to proxy (lines 80-82)
get_document_id_NoFallback(path_params) ==
  IF Has(path_params, "document_id") /\ path_params.document_id # ""
  THEN path_params.document_id
  ELSE NoId

get_document_id_from_event(path_params) ==
  IF Has(path_params, "document_id") /\ path_params.document_id # ""
  THEN path_params.document_id
  ELSE IF Has(path_params, "proxy") /\ path_params.proxy # "" THEN path_params.proxy
  ELSE NoId

\* GET /documents/{document_id}: lines 163-180
handle_get_document(path_params) ==
  /\ LET doc_id == get_document_id_from_event(path_params)
     IN resp' =
          IF doc_id = NoId
          THEN Response("GET", path_params, 400,
                        [error |-> "document_id path parameter is required"])
          ELSE IF doc_id \notin DOMAIN meta
          THEN Response("GET", path_params, 404,
                        [error |-> "Document not found", document_id |-> doc_id])
          ELSE Response("GET", path_params, 200, [document |-> meta[doc_id]])
  /\ UNCHANGED <<clock, meta, audit, objects, stream, wst, pst, hist>>

\* A client puts a PDF at documents/<d>/original/<filename>; the bucket emits
\* the object-created notification.
ClientUpload(d) ==
  /\ OriginalKey(d) \notin DOMAIN objects
  /\ d \in DOMAIN meta \/ Fresh(d)
  /\ objects' = PutObject(OriginalKey(d), PdfBody)
  /\ UNCHANGED <<resp, clock, meta, audit, stream, wst, pst, hist>>

\* A client puts a file that is no PDF at documents/<d>/original/<filename>.
ClientUploadBroken(d) ==
  /\ OriginalKey(d) \notin DOMAIN objects
  /\ d \in DOMAIN meta \/ Fresh(d)
  /\ objects' = PutObject(OriginalKey(d), BrokenBody)
  /\ UNCHANGED <<resp, clock, meta, audit, stream, wst, pst, hist>>

Tick ==
  /\ clock < MaxTime
  /\ clock' = clock + 1
  /\ UNCHANGED <<resp, meta, audit, objects, stream, wst, pst, hist>>


\* ------------------------------------------------- s3_ingest.lambda_handler
\* An invocation gets one notification record (S3 puts one record in an event).
\* Its local steps run together with its next access to the table or the
\* bucket: line 72 to get_object and extract_pdf_metadata (94-97), then
\* update_item (99-109), then put_item (111-124).
IdleW == [pc |-> "idle", now |-> 0, s3_key |-> <<>>, document_id |-> NoId,
          page_count |-> 0, error |-> ""]

\* the error logged (line 132) and the handler returning without `raise`
RaisedW_Returned(e) == [IdleW EXCEPT !.error = e]

\* `raise`: the invocation ends with the error
RaisedW(e) == [IdleW EXCEPT !.pc = "raised", !.error = e]

\* the notification records the bucket has emitted, each deliverable any number
\* of times, and a record that names no key
S3Records == {S3Record(k) : k \in DOMAIN objects} \cup {MalformedS3Record}

\* lines 72-85: `continue` on a record without bucket or key, or with a key
\* that yields no document id
WatcherSkips(record) ==
  \/ record.bucket = "" \/ record.key = <<>>
  \/ extract_document_id_from_s3_key(unquote_plus(record.key)) = NoId

WatcherSkip(w, record) ==
  /\ wst[w].pc \in {"idle", "raised"}
  /\ WatcherSkips(record)
  /\ wst' = [wst EXCEPT ![w] = IdleW]
  /\ UNCHANGED <<resp, clock, meta, audit, objects, stream, pst, hist>>

\* lines 80-97: the key decoded, the id extracted, `now` read, the object
\* fetched and parsed (PdfReader raises on a body that is no PDF)
WatcherBegin(w, record) ==
  /\ wst[w].pc \in {"idle", "raised"}
  /\ ~WatcherSkips(record)
  /\ LET s3_key == unquote_plus(record.key)
         found == s3_key \in DOMAIN objects
     IN wst' = [wst EXCEPT ![w] =
          IF found /\ objects[s3_key].kind = "pdf"
          THEN [pc |-> "update", now |-> clock, s3_key |-> s3_key,
                document_id |-> extract_document_id_from_s3_key(s3_key),
                page_count |-> objects[s3_key].pages, error |-> ""]
          ELSE [RaisedW(IF found THEN "PdfReadError" ELSE "NoSuchKey")
                  EXCEPT !.s3_key = s3_key]]
  /\ UNCHANGED <<resp, clock, meta, audit, objects, stream, pst, hist>>

\* get_object raises
WatcherFetchFails(w, record) ==
  /\ wst[w].pc \in {"idle", "raised"}
  /\ ~WatcherSkips(record)
  /\ wst' = [wst EXCEPT ![w] = RaisedW("S3Error")]
  /\ UNCHANGED <<resp, clock, meta, audit, objects, stream, pst, hist>>

\* an update that sets created_at too
UploadedFrom_Recreated(item, now, page_count) ==
  [status |-> "UPLOADED", updated_at |-> now, page_count |-> page_count,
   created_at |-> now] @@ item

\* lines 99-109: the item after the unconditional update_item (created when absent)
UploadedFrom(item, now, page_count) ==
  SetAttrs(item, [status |-> "UPLOADED", updated_at |-> now, page_count |-> page_count])

uploaded_item(d, now, page_count) ==
  UploadedFrom(IF d \in DOMAIN meta THEN meta[d] ELSE [pk |-> Pk(d), sk |-> META_SK],
               now, page_count)

Bump(n) == IF n < 2 THEN n + 1 ELSE 2

WatcherUpdate(w) ==
  /\ wst[w].pc = "update"
  /\ LET d == wst[w].document_id
         item == uploaded_item(d, wst[w].now, wst[w].page_count)
     IN /\ meta' = PutMeta(d, item)
        /\ stream' = Emit(stream, MetaStream(d, item))
        /\ hist' = [hist EXCEPT !.uploads[d] = Bump(@), !.wins[d] = 0]
        /\ wst' = [wst EXCEPT ![w].pc = "audit"]
  /\ UNCHANGED <<resp, clock, audit, objects, pst>>

WatcherUpdateFails(w) ==
  /\ wst[w].pc = "update"
  /\ wst' = [wst EXCEPT ![w] = RaisedW("DynamoDBError")]
  /\ UNCHANGED <<resp, clock, meta, audit, objects, stream, pst, hist>>

uploaded_audit_item(d, now, s3_key, page_count) ==
  AuditItem(d, now, "DOCUMENT_UPLOADED",
            [bucket |-> BucketName, s3_key |-> s3_key, page_count |-> page_count])

\* lines 111-124, and the return
WatcherAudit(w) ==
  /\ wst[w].pc = "audit"
  /\ LET d == wst[w].document_id
         a == uploaded_audit_item(d, wst[w].now, wst[w].s3_key, wst[w].page_count)
     IN /\ audit' = PutAudit(d, wst[w].now, a)
        /\ stream' = Emit(stream, AuditStream(d, wst[w].now, a))
        /\ wst' = [wst EXCEPT ![w] = IdleW]
  /\ UNCHANGED <<resp, clock, meta, objects, pst, hist>>

WatcherAuditFails(w) ==
  /\ wst[w].pc = "audit"
  /\ wst' = [wst EXCEPT ![w] = RaisedW("DynamoDBError")]
  /\ UNCHANGED <<resp, clock, meta, audit, objects, stream, pst, hist>>

\* ------------------------------------------ process_document.lambda_handler
\* An invocation gets a batch of stream records.  Its local steps run together
\* with its next access to the bucket or the table: the filters of lines
\* 111-135 up to the next record they let through, then put_object (137-167),
\* then update_item (170-187), then put_item (190-203).
is_meta_item(new_image) == Has(new_image, "sk") /\ new_image.sk = META_SK

NoStr == "<None>"

get_str_attr(new_image, name) == IF Has(new_image, name) THEN new_image[name] ELSE NoStr

derive_document_id_from_pk(pk) == IF pk[1] = "DOC" THEN pk[2] ELSE NoStr

\* the filters without the comparison of the status with "UPLOADED" (line 124)
Eligible_AnyStatus(record) ==
  /\ record.eventName \in {"INSERT", "MODIFY"}
  /\ Has(record, "NewImage")
  /\ is_meta_item(record.NewImage)

\* lines 111-125: the record passes every `continue`
Eligible(record) ==
  /\ record.eventName \in {"INSERT", "MODIFY"}
  /\ Has(record, "NewImage")
  /\ is_meta_item(record.NewImage)
  /\ get_str_attr(record.NewImage, "status") = "UPLOADED"

\* lines 130-132
DocumentIdOf(new_image) ==
  IF get_str_attr(new_image, "document_id") # NoStr
  THEN get_str_attr(new_image, "document_id")
  ELSE derive_document_id_from_pk(new_image.pk)

build_processed_summary(new_image, document_id, processed_at) ==
  [document_id |-> document_id, status |-> "PROCESSED", processed_at |-> processed_at,
   filename |-> get_str_attr(new_image, "filename"),
   bucket |-> get_str_attr(new_image, "bucket"),
   s3_key |-> IF Has(new_image, "s3_key") THEN new_image.s3_key ELSE <<>>,
   page_count |-> IF Has(new_image, "page_count") THEN new_image.page_count ELSE 0,
   processing_version |-> PROCESSING_VERSION]

IdleP == [pc |-> "idle", records |-> <<>>, idx |-> 0, now |-> 0, error |-> "",
          failed_at |-> 0, won |-> FALSE]

\* `raise`: the invocation ends with the error; the platform delivers the batch again
RaisedP(st, e) == [IdleP EXCEPT !.pc = "raised", !.records = st.records, !.idx = st.idx,
                                !.error = e]

\* `for record in records` from index `from` on: the index of the first record
\* the filters let through, 0 when they skip all that is left
NextEligible(records, from) ==
  LET S == {i \in from..Len(records) : Eligible(records[i])}
  IN IF S = {} THEN 0 ELSE CHOOSE i \in S : \A j \in S : i <= j

\* The loop goes on at index `from`; the handler returns when nothing is left.
\* failed_at and won are history: failed_at is, in a batch delivered again, the
\* index at which the last delivery raised, while the loop is before that index
\* (0 otherwise); won says that the conditional update of the record at hand
\* succeeded.
Continue(records, from, failed_at) ==
  LET i == NextEligible(records, from)
  IN IF i = 0 THEN IdleP
     ELSE [IdleP EXCEPT !.pc = "put", !.records = records, !.idx = i,
                        !.failed_at = IF i < failed_at THEN failed_at ELSE 0]

Record(p) == pst[p].records[pst[p].idx]

DocOf(p) == DocumentIdOf(Record(p).NewImage)

\* The batches the stream delivers: runs of up to n consecutive records, each
\* run any number of times, and single records of other writes to the table,
\* which the handler has to skip.
Runs(n) ==
  {SubSeq(stream, i, j) : <<i, j>> \in
     {r \in (DOMAIN stream) \X (DOMAIN stream) : r[1] <= r[2] /\ r[2] - r[1] < n}}
    \cup {<<RemoveRecord>>, <<NoImageRecord>>}

Singles == Runs(1)

Batches == Runs(MaxBatch)

ProcInvoke(p, records) ==
  /\ pst[p].pc = "idle"
  /\ pst' = [pst EXCEPT ![p] = Continue(records, 1, 0)]
  /\ UNCHANGED <<resp, clock, meta, audit, objects, stream, wst, hist>>

\* the whole batch of an invocation that raised is delivered again
ProcRedeliver(p) ==
  /\ pst[p].pc = "raised"
  /\ pst' = [pst EXCEPT ![p] = Continue(pst[p].records, 1, pst[p].idx)]
  /\ UNCHANGED <<resp, clock, meta, audit, objects, stream, wst, hist>>

\* lines 137-167: `now` read, the summary built from the stream image and put
\* in the bucket
ProcPut(p) ==
  /\ pst[p].pc = "put"
  /\ LET summary == build_processed_summary(Record(p).NewImage, DocOf(p), clock)
     IN objects' = PutObject(ProcessedKey(DocOf(p)), [kind |-> "json", summary |-> summary])
  /\ pst' = [pst EXCEPT ![p].pc = "update", ![p].now = clock]
  /\ UNCHANGED <<resp, clock, meta, audit, stream, wst, hist>>

ProcPutFails(p) ==
  /\ pst[p].pc = "put"
  /\ pst' = [pst EXCEPT ![p] = RaisedP(@, "S3Error")]
  /\ UNCHANGED <<resp, clock, meta, audit, objects, stream, wst, hist>>

\* an update_item without ConditionExpression: it applies to any item there is
ConditionHolds_Unconditional(d) == d \in DOMAIN meta

\* a condition that only asks for the item to be past REGISTERED
ConditionHolds_PastRegistered(d) ==
  d \in DOMAIN meta /\ Has(meta[d], "status") /\ meta[d].status # "REGISTERED"

\* ConditionExpression "#st = :uploaded" (false on an absent item too)
ConditionHolds(d) == d \in DOMAIN meta /\ Has(meta[d], "status") /\ meta[d].status = "UPLOADED"

\* an update that names the key of the upload as the output key
processed_item_OriginalKey(d, now) ==
  SetAttrs(meta[d],
           [status |-> "PROCESSED", processed_at |-> now,
            processing_version |-> PROCESSING_VERSION, updated_at |-> now,
            processed_output_bucket |-> BucketName,
            processed_output_key |-> OriginalKey(d)])

processed_item(d, now) ==
  SetAttrs(meta[d],
           [status |-> "PROCESSED", processed_at |-> now,
            processing_version |-> PROCESSING_VERSION, updated_at |-> now,
            processed_output_bucket |-> BucketName,
            processed_output_key |-> ProcessedKey(d)])

\* lines 170-187, the condition true
ProcUpdate(p) ==
  /\ pst[p].pc = "update"
  /\ ConditionHolds(DocOf(p))
  /\ LET d == DocOf(p)
         item == processed_item(d, pst[p].now)
     IN /\ meta' = PutMeta(d, item)
        /\ stream' = Emit(stream, MetaStream(d, item))
        /\ hist' = [hist EXCEPT !.processed[d] = Bump(@), !.wins[d] = Bump(@)]
  /\ pst' = [pst EXCEPT ![p].pc = "audit", ![p].won = TRUE]
  /\ UNCHANGED <<resp, clock, audit, objects, wst>>

\* lines 170-187, the condition false: update_item raises
\* ConditionalCheckFailedException, a ClientError, which lines 219-232 log and
\* raise again
ProcUpdateRejected(p) ==
  /\ pst[p].pc = "update"
  /\ ~ConditionHolds(DocOf(p))
  /\ pst' = [pst EXCEPT ![p] = RaisedP(@, "ConditionalCheckFailedException")]
  /\ UNCHANGED <<resp, clock, meta, audit, objects, stream, wst, hist>>

ProcUpdateFails(p) ==
  /\ pst[p].pc = "update"
  /\ pst' = [pst EXCEPT ![p] = RaisedP(@, "DynamoDBError")]
  /\ UNCHANGED <<resp, clock, meta, audit, objects, stream, wst, hist>>

processed_audit_item(d, now) ==
  AuditItem(d, now, "DOCUMENT_PROCESSED",
            [processing_version |-> PROCESSING_VERSION,
             processed_output_bucket |-> BucketName,
             processed_output_key |-> ProcessedKey(d)])

\* lines 190-203, and the loop going on
ProcAudit(p) ==
  /\ pst[p].pc = "audit"
  /\ LET d == DocOf(p)
         a == processed_audit_item(d, pst[p].now)
     IN /\ audit' = PutAudit(d, pst[p].now, a)
        /\ stream' = Emit(stream, AuditStream(d, pst[p].now, a))
  /\ pst' = [pst EXCEPT ![p] = Continue(@.records, @.idx + 1, @.failed_at)]
  /\ UNCHANGED <<resp, clock, meta, objects, wst, hist>>

ProcAuditFails(p) ==
  /\ pst[p].pc = "audit"
  /\ pst' = [pst EXCEPT ![p] = RaisedP(@, "DynamoDBError")]
  /\ UNCHANGED <<resp, clock, meta, audit, objects, stream, wst, hist>>

\* ----------------------------------------------------------- specification
Init ==
  /\ clock = 0
  /\ resp = NoResponse
  /\ meta = <<>>
  /\ audit = <<>>
  /\ objects = <<>>
  /\ stream = <<>>
  /\ wst = [w \in Watchers |-> IdleW]
  /\ pst = [p \in Processors |-> IdleP]
  /\ hist = [registered |-> {}, uploads |-> [d \in Ids |-> 0],
             processed |-> [d \in Ids |-> 0], wins |-> [d \in Ids |-> 0]]

\* One document, two concurrent processing invocations with one stream record
\* each, every call to the bucket and the table answered.
Next ==
  \/ Tick
  \/ handle_post_documents("d1")
  \/ ClientUpload("d1")
  \/ \E w \in Watchers : \E record \in S3Records : WatcherSkip(w, record)
  \/ \E w \in Watchers : \E record \in S3Records : WatcherBegin(w, record)
  \/ \E w \in Watchers : WatcherUpdate(w)
  \/ \E w \in Watchers : WatcherAudit(w)
  \/ \E p \in Processors : \E records \in Singles : ProcInvoke(p, records)
  \/ \E p \in Processors : ProcRedeliver(p)
  \/ \E p \in Processors : ProcPut(p)
  \/ \E p \in Processors : ProcUpdate(p)
  \/ \E p \in Processors : ProcUpdateRejected(p)
  \/ \E p \in Processors : ProcAudit(p)

Spec == Init /\ [][Next]_vars

\* The state in which both documents have been registered and uploaded and the
\* ingest handler has run for both, everything at time 0: the two invocations
\* updated the items one after the other and then put their audit items (on
\* the keys of the registration's audit items, written at the same time).
InitUploaded ==
  /\ clock = 0
  /\ resp = Response("POST", RegistrationBody, 201,
                     [document_id |-> "d2", bucket |-> BucketName,
                      s3_key |-> OriginalKey("d2"), status |-> "REGISTERED",
                      created_at |-> 0])
  /\ meta = [d \in Ids |-> UploadedFrom(metadata_item(d, 0), 0, PageCount)]
  /\ audit = [k \in Ids \X {0} |-> uploaded_audit_item(k[1], 0, OriginalKey(k[1]), PageCount)]
  /\ objects = [k \in {OriginalKey(d) : d \in Ids} |-> PdfBody]
  /\ stream =
       <<StreamRecord(FALSE, metadata_item("d1", 0)),
         StreamRecord(FALSE, registered_audit_item("d1", 0)),
         StreamRecord(FALSE, metadata_item("d2", 0)),
         StreamRecord(FALSE, registered_audit_item("d2", 0)),
         StreamRecord(TRUE, UploadedFrom(metadata_item("d1", 0), 0, PageCount)),
         StreamRecord(TRUE, UploadedFrom(metadata_item("d2", 0), 0, PageCount)),
         StreamRecord(TRUE, uploaded_audit_item("d1", 0, OriginalKey("d1"), PageCount)),
         StreamRecord(TRUE, uploaded_audit_item("d2", 0, OriginalKey("d2"), PageCount))>>
  /\ wst = [w \in Watchers |-> IdleW]
  /\ pst = [p \in Processors |-> IdleP]
  /\ hist = [registered |-> Ids, uploads |-> [d \in Ids |-> 1],
             processed |-> [d \in Ids |-> 0], wins |-> [d \in Ids |-> 0]]

\* Two uploaded documents, one processing invocation at a time with batches of
\* up to MaxBatch records, and calls to the bucket and the table that may fail.
NextBatch ==
  \/ Tick
  \/ \E records \in Batches : ProcInvoke("p1", records)
  \/ ProcRedeliver("p1")
  \/ ProcPut("p1")
  \/ ProcPutFails("p1")
  \/ ProcUpdate("p1")
  \/ ProcUpdateRejected("p1")
  \/ ProcUpdateFails("p1")
  \/ ProcAudit("p1")
  \/ ProcAuditFails("p1")

SpecBatch == InitUploaded /\ [][NextBatch]_vars

\* the stream record that reports the ingest update of d
UploadedRecord(d) == StreamRecord(TRUE, UploadedFrom(metadata_item(d, 0), 0, PageCount))

Carries(records, d) == \E i \in DOMAIN records : records[i] = UploadedRecord(d)

\* a batch with the record of d's ingest update is delivered
DeliverUploaded(p, d) ==
  \E records \in Batches : Carries(records, d) /\ ProcInvoke(p, records)

\* Two uploaded documents, one processing invocation at a time with batches of
\* up to MaxBatch records, every call to the bucket and the table answered.
NextLive ==
  \/ Tick
  \/ \E records \in Batches : ProcInvoke("p1", records)
  \/ ProcRedeliver("p1")
  \/ ProcPut("p1")
  \/ ProcUpdate("p1")
  \/ ProcUpdateRejected("p1")
  \/ ProcAudit("p1")

\* At-least-once delivery: an invocation that has started goes on to its
\* return or its raise, a batch whose invocation raised is delivered again, and
\* the record of each document's ingest update is delivered if the function is
\* free to take a batch again and again (the function is not free while it
\* handles another batch, so the condition is a strong one).
Fairness ==
  /\ WF_vars(ProcPut("p1"))
  /\ WF_vars(ProcUpdate("p1"))
  /\ WF_vars(ProcUpdateRejected("p1"))
  /\ WF_vars(ProcAudit("p1"))
  /\ WF_vars(ProcRedeliver("p1"))
  /\ \A d \in Ids : SF_vars(DeliverUploaded("p1", d))

FairSpec == InitUploaded /\ [][NextLive]_vars /\ Fairness

\* As NextLive, and the put of the audit item may fail.
NextLiveAudit ==
  \/ Tick
  \/ \E records \in Batches : ProcInvoke("p1", records)
  \/ ProcRedeliver("p1")
  \/ ProcPut("p1")
  \/ ProcUpdate("p1")
  \/ ProcUpdateRejected("p1")
  \/ ProcAudit("p1")
  \/ ProcAuditFails("p1")

FairSpecAudit == InitUploaded /\ [][NextLiveAudit]_vars /\ Fairness

\* The state of InitUploaded, with a count of the batches the stream has
\* handed to the processing handler (a batch delivered again after a raise is
\* not counted).
InitQuiesce ==
  /\ clock = 0
  /\ resp = Response("POST", RegistrationBody, 201,
                     [document_id |-> "d2", bucket |-> BucketName,
                      s3_key |-> OriginalKey("d2"), status |-> "REGISTERED",
                      created_at |-> 0])
  /\ meta = [d \in Ids |-> UploadedFrom(metadata_item(d, 0), 0, PageCount)]
  /\ audit = [k \in Ids \X {0} |-> uploaded_audit_item(k[1], 0, OriginalKey(k[1]), PageCount)]
  /\ objects = [k \in {OriginalKey(d) : d \in Ids} |-> PdfBody]
  /\ stream =
       <<StreamRecord(FALSE, metadata_item("d1", 0)),
         StreamRecord(FALSE, registered_audit_item("d1", 0)),
         StreamRecord(FALSE, metadata_item("d2", 0)),
         StreamRecord(FALSE, registered_audit_item("d2", 0)),
         StreamRecord(TRUE, UploadedFrom(metadata_item("d1", 0), 0, PageCount)),
         StreamRecord(TRUE, UploadedFrom(metadata_item("d2", 0), 0, PageCount)),
         StreamRecord(TRUE, uploaded_audit_item("d1", 0, OriginalKey("d1"), PageCount)),
         StreamRecord(TRUE, uploaded_audit_item("d2", 0, OriginalKey("d2"), PageCount))>>
  /\ wst = [w \in Watchers |-> IdleW]
  /\ pst = [p \in Processors |-> IdleP]
  /\ hist = [registered |-> Ids, uploads |-> [d \in Ids |-> 1],
             processed |-> [d \in Ids |-> 0], wins |-> [d \in Ids |-> 0],
             deliveries |-> 0]

\* the stream hands a batch to the handler, at most MaxDeliveries times in all
ProcDeliver(p, records) ==
  /\ hist.deliveries < MaxDeliveries
  /\ pst[p].pc = "idle"
  /\ pst' = [pst EXCEPT ![p] = Continue(records, 1, 0)]
  /\ hist' = [hist EXCEPT !.deliveries = @ + 1]
  /\ UNCHANGED <<resp, clock, meta, audit, objects, stream, wst>>

\* Two uploaded documents and finitely many deliveries of batches of stream
\* records, the records of the handler's own writes among them; a batch whose
\* invocation raised is delivered again.
NextQuiesce ==
  \/ Tick
  \/ \E records \in Batches : ProcDeliver("p1", records)
  \/ ProcRedeliver("p1")
  \/ ProcPut("p1")
  \/ ProcUpdate("p1")
  \/ ProcUpdateRejected("p1")
  \/ ProcAudit("p1")

\* an invocation that has started goes on to its return or its raise, and a
\* batch whose invocation raised is delivered again
FairnessOfSteps ==
  /\ WF_vars(ProcPut("p1"))
  /\ WF_vars(ProcUpdate("p1"))
  /\ WF_vars(ProcUpdateRejected("p1"))
  /\ WF_vars(ProcAudit("p1"))
  /\ WF_vars(ProcRedeliver("p1"))

FairQuiesce == InitQuiesce /\ [][NextQuiesce]_vars /\ FairnessOfSteps

\* Registration, uploads of PDFs and of other files, and one ingest invocation
\* at a time whose calls to the bucket and the table may fail.
NextIngest ==
  \/ Tick
  \/ \E d \in Ids : handle_post_documents(d)
  \/ \E d \in Ids : ClientUpload(d)
  \/ \E d \in Ids : ClientUploadBroken(d)
  \/ \E record \in S3Records : WatcherSkip("w1", record)
  \/ \E record \in S3Records : WatcherBegin("w1", record)
  \/ \E record \in S3Records : WatcherFetchFails("w1", record)
  \/ WatcherUpdate("w1")
  \/ WatcherUpdateFails("w1")
  \/ WatcherAudit("w1")
  \/ WatcherAuditFails("w1")

SpecIngest == Init /\ [][NextIngest]_vars

\* The API with any request, uploads for the first document and one ingest
\* invocation at a time, every call to the bucket and the table answered.
NextApi ==
  \/ Tick
  \/ \E request \in RawBodies : \E d \in Ids : PostDocuments(request, d)
  \/ \E path_params \in PathParameters : handle_get_document(path_params)
  \/ ClientUpload("d1")
  \/ \E record \in S3Records : WatcherBegin("w1", record)
  \/ WatcherUpdate("w1")
  \/ WatcherAudit("w1")

SpecApi == Init /\ [][NextApi]_vars

\* ------------------------------------------- the PDF metadata on its own
\* A text is a sequence of runs, each a character and the number of times it
\* is repeated: letters ("a"), white space (" ") and the NUL character.
Chars == {"a", " ", "NUL"}

RunLengths == {1, PREVIEW_MAX - 1, PREVIEW_MAX}

TextsOfRuns(n) == [1..n -> [ch : Chars, n : RunLengths]]

Texts == UNION {TextsOfRuns(n) : n \in 0..MaxRuns}

RECURSIVE TextLen(_)
TextLen(t) == IF t = <<>> THEN 0 ELSE Head(t).n + TextLen(Tail(t))

\* str.lstrip(): NUL is no white space
RECURSIVE lstrip(_)
lstrip(t) == IF t # <<>> /\ Head(t).ch = " " THEN lstrip(Tail(t)) ELSE t

RECURSIVE rstrip(_)
rstrip(t) ==
  IF t # <<>> /\ t[Len(t)].ch = " " THEN rstrip(SubSeq(t, 1, Len(t) - 1)) ELSE t

strip(t) == rstrip(lstrip(t))

\* .replace("\x00", "")
IsNotNul(run) == run.ch # "NUL"

remove_nul(t) == SelectSeq(t, IsNotNul)

\* a slice that keeps everything
take_All(t, k) == t

\* t[:k]
RECURSIVE take(_, _)
take(t, k) ==
  IF t = <<>> \/ k = 0 THEN <<>>
  ELSE IF Head(t).n <= k THEN <<Head(t)>> \o take(Tail(t), k - Head(t).n)
  ELSE <<[ch |-> Head(t).ch, n |-> k]>>

\* The PDFs: the number of pages and what extract_text() gives for the first
\* page, a text or None.
PdfInputs ==
  {[pages |-> 0, has_text |-> FALSE, text |-> <<>>]}
    \cup {[pages |-> n, has_text |-> TRUE, text |-> t] : n \in 1..MaxPages, t \in Texts}
    \cup {[pages |-> n, has_text |-> FALSE, text |-> <<>>] : n \in 1..MaxPages}

\* lines 27-37
extract_pdf_metadata(pdf_bytes) ==
  LET page_count == pdf_bytes.pages
      first_page_text == IF pdf_bytes.has_text THEN pdf_bytes.text ELSE <<>>
      text_preview == IF page_count > 0
                      THEN take(remove_nul(strip(first_page_text)), PREVIEW_MAX)
                      ELSE <<>>
  IN <<page_count, text_preview>>

\* an invocation that has read the body of the object (line 95)
FetchedW(pdf_bytes) ==
  [pdf_bytes |-> pdf_bytes, text_preview |-> <<>>] @@ [IdleW EXCEPT !.pc = "fetched"]

InitPdf ==
  /\ clock = 0
  /\ resp = NoResponse
  /\ meta = <<>>
  /\ audit = <<>>
  /\ objects = <<>>
  /\ stream = <<>>
  /\ \E pdf_bytes \in PdfInputs : wst = [w \in Watchers |-> FetchedW(pdf_bytes)]
  /\ pst = [p \in Processors |-> IdleP]
  /\ hist = [registered |-> {}, uploads |-> [d \in Ids |-> 0],
             processed |-> [d \in Ids |-> 0], wins |-> [d \in Ids |-> 0]]

\* line 97
WatcherExtractMetadata(w) ==
  /\ wst[w].pc = "fetched"
  /\ LET r == extract_pdf_metadata(wst[w].pdf_bytes)
     IN wst' = [wst EXCEPT ![w].pc = "parsed", ![w].page_count = r[1],
                           ![w].text_preview = r[2]]
  /\ UNCHANGED <<resp, clock, meta, audit, objects, stream, pst, hist>>

NextPdf == \E w \in Watchers : WatcherExtractMetadata(w)

SpecPdf == InitPdf /\ [][NextPdf]_vars

\* ------------------------------------------------ the key parsing on its own
\* what '/'-separated segments a decoded key is made of
Segments == {"documents", "uploads", "", "d1", "original", Filename}

\* s3_key.split("/") of every key of up to MaxSegments segments (the split of
\* a string has at least one segment)
KeyInputs == UNION {[1..n -> Segments] : n \in 1..MaxSegments}

\* an invocation that has decoded the key of its record (line 80)
DecodedW(s3_key) == [IdleW EXCEPT !.pc = "decoded", !.s3_key = s3_key]

InitKey ==
  /\ clock = 0
  /\ resp = NoResponse
  /\ meta = <<>>
  /\ audit = <<>>
  /\ objects = <<>>
  /\ stream = <<>>
  /\ \E s3_key \in KeyInputs : wst = [w \in Watchers |-> DecodedW(s3_key)]
  /\ pst = [p \in Processors |-> IdleP]
  /\ hist = [registered |-> {}, uploads |-> [d \in Ids |-> 0],
             processed |-> [d \in Ids |-> 0], wins |-> [d \in Ids |-> 0]]

\* lines 82-85: the id extracted, `continue` when there is none
WatcherExtract(w) ==
  /\ wst[w].pc = "decoded"
  /\ LET document_id == extract_document_id_from_s3_key(wst[w].s3_key)
     IN wst' = [wst EXCEPT ![w].document_id = document_id,
                           ![w].pc = IF document_id = NoId THEN "skipped" ELSE "extracted"]
  /\ UNCHANGED <<resp, clock, meta, audit, objects, stream, pst, hist>>

NextKey == \E w \in Watchers : WatcherExtract(w)

SpecKey == InitKey /\ [][NextKey]_vars

\* ------------------------------------------------------------- properties
Rank(status) == CASE status = "REGISTERED" -> 1
                  [] status = "UPLOADED" -> 2
                  [] status = "PROCESSED" -> 3

Rejected(p) == pst[p].pc = "raised" /\ pst[p].error = "ConditionalCheckFailedException"

\* a processing invocation is between its put_object and its put_item for d
InFlight(d) == \E q \in Processors : pst[q].pc \in {"put", "update", "audit"} /\ DocOf(q) = d

ProcessedAudits(d) ==
  {k \in DOMAIN audit : k[1] = d /\ audit[k].event_type = "DOCUMENT_PROCESSED"}

\* C1: the status of a META item never regresses: no step takes it from
\* PROCESSED to UPLOADED or REGISTERED, or from UPLOADED to REGISTERED.
C1_StatusNeverRegresses ==
  [][\A d \in DOMAIN meta : Rank(meta'[d].status) >= Rank(meta[d].status)]_vars

\* C2: when update_item answers that the condition failed, the processing
\* handler raises nothing, leaves the item and the audit items as they are and
\* goes on with the next record of the batch.
C2_RejectedUpdateIsNoOp ==
  [][\A p \in Processors :
       (/\ pst[p].pc = "update"
        /\ pst'[p] # pst[p]
        /\ ~ConditionHolds(DocOf(p))
        /\ pst'[p].error # "DynamoDBError")
       => /\ pst'[p].pc # "raised"
          /\ pst'[p] = Continue(pst[p].records, pst[p].idx + 1, pst[p].failed_at)
          /\ meta' = meta
          /\ audit' = audit]_vars

\* C3: after the ingest update has been applied once and the record that
\* reports it has been delivered to the processing handler twice (one delivery
\* updated the item, the other was rejected, and both are over), the status is
\* PROCESSED and the document has exactly one DOCUMENT_PROCESSED audit item.
C3_DuplicateDeliveryOneAudit ==
  \A p \in Processors :
    (Rejected(p) /\ hist.uploads[DocOf(p)] = 1 /\ ~InFlight(DocOf(p)))
    => /\ meta[DocOf(p)].status = "PROCESSED"
       /\ Cardinality(ProcessedAudits(DocOf(p))) = 1

\* C4: for every document the UPLOADED transition is applied at most once and
\* the PROCESSED transition is applied at most once.
C4_TransitionsAppliedOnce ==
  \A d \in Ids : hist.uploads[d] <= 1 /\ hist.processed[d] <= 1

\* C5: of the processing invocations that handle records of one item while it
\* is UPLOADED, at most one has its conditional update succeed; the item's
\* processed_at and processed-output attributes change only in that update, and
\* only an invocation whose update succeeded puts a DOCUMENT_PROCESSED audit item.
C5_OneWinner ==
  [][/\ \A d \in Ids : hist.wins'[d] <= 1
     /\ \A p \in Processors : pst[p].pc = "audit" => pst[p].won
     /\ \A d \in DOMAIN meta :
          (/\ Has(meta[d], "processed_at")
           /\ \/ meta'[d].processed_at # meta[d].processed_at
              \/ meta'[d].processed_output_key # meta[d].processed_output_key)
          => hist.wins[d] = 0 /\ hist.wins'[d] = 1
     /\ \A d \in DOMAIN meta' :
          (~(d \in DOMAIN meta /\ Has(meta[d], "processed_at")) /\ Has(meta'[d], "processed_at"))
          => hist.wins[d] = 0 /\ hist.wins'[d] = 1
     /\ \A k \in DOMAIN audit' :
          (/\ audit'[k].event_type = "DOCUMENT_PROCESSED"
           /\ ~(k \in DOMAIN audit /\ audit[k] = audit'[k]))
          => \E p \in Processors : pst[p].won /\ pst'[p] # pst[p] /\ DocOf(p) = k[1]]_vars

\* C5, the case: one invocation has updated the item and is about to put its
\* audit item while another, handling a record of the same item, is about to
\* try its conditional update.
C5_Witness ==
  /\ pst["p1"].pc = "audit" /\ pst["p2"].pc = "update"
  /\ DocOf("p1") = DocOf("p2")
  /\ hist.wins[DocOf("p1")] = 1

\* C6: every registered document whose upload the ingest handler has recorded
\* eventually has the status PROCESSED, whatever batches its stream record is
\* delivered in.
C6_EventuallyProcessed ==
  \A d \in Ids :
    (d \in hist.registered /\ hist.uploads[d] > 0) ~> (meta[d].status = "PROCESSED")

\* the invocation of p handles again a record that comes before the one at
\* which the last delivery of its batch raised
Redelivered(p) ==
  pst[p].pc \in {"put", "update", "audit"} /\ pst[p].idx < pst[p].failed_at

\* C7: while a batch that raised at its k-th record is handled again, the items
\* of its records before the k-th are PROCESSED and handling them again changes
\* no attribute of those items and puts no audit item.
C7_RedeliveryLeavesProcessed ==
  [][\A p \in Processors :
       Redelivered(p)
       => /\ meta[DocOf(p)].status = "PROCESSED"
          /\ meta'[DocOf(p)] = meta[DocOf(p)]
          /\ audit' = audit]_vars

\* C7, the case: the batch raised at its second record, is delivered again, and
\* the handler is about to try the conditional update for the first record.
C7_Witness ==
  /\ pst["p1"].pc = "update"
  /\ pst["p1"].idx = 1
  /\ pst["p1"].failed_at = 2
  /\ meta[DocOf("p1")].status = "PROCESSED"

\* C8: a step of the processing handler that changes the bucket, a META item or
\* the audit items is for a record whose eventName is INSERT or MODIFY, that has
\* a NewImage, whose sk is META#v1 and whose status is UPLOADED.
C8_WritesOnlyForUploaded ==
  [][(objects' # objects \/ meta' # meta \/ audit' # audit)
     => \E p \in Processors :
          /\ pst[p].pc \in {"put", "update", "audit"}
          /\ pst'[p] # pst[p]
          /\ pst[p].records[pst[p].idx].eventName \in {"INSERT", "MODIFY"}
          /\ "NewImage" \in DOMAIN pst[p].records[pst[p].idx]
          /\ pst[p].records[pst[p].idx].NewImage.sk = "META#v1"
          /\ pst[p].records[pst[p].idx].NewImage.status = "UPLOADED"]_vars

\* C8, the case: the first record of the batch is for an audit item, the
\* handler has skipped it and has put the artifact for the second record.
C8_Witness ==
  /\ pst["p1"].pc = "update"
  /\ pst["p1"].idx = 2
  /\ pst["p1"].records[1].NewImage.sk # "META#v1"
  /\ ProcessedKey(DocOf("p1")) \in DOMAIN objects

\* C9: an audit item, once written, stays in the table with the same content.
C9_AuditAppendOnly ==
  [][\A k \in DOMAIN audit : k \in DOMAIN audit' /\ audit'[k] = audit[k]]_vars

\* C10: every META item in the table is the item of a registered document.
C10_MetaOnlyByRegistration ==
  \A d \in DOMAIN meta : d \in hist.registered

\* documents/<identity>/original/<filename>
IsOriginalKey(s3_key) ==
  /\ Len(s3_key) = 4
  /\ s3_key[1] = "documents"
  /\ s3_key[2] # ""
  /\ s3_key[3] = "original"

\* C11: the ingest handler goes past its filters (to get_object and what
\* follows it) only with a key of the shape documents/<identity>/original/<filename>.
C11_OnlyOriginalKeys ==
  \A w \in Watchers : wst[w].s3_key # <<>> => IsOriginalKey(wst[w].s3_key)

\* C12: the extraction returns the second segment for every key
\* documents/<id>/original/<name> with a non-empty <id>, and nothing for every
\* key with fewer than 4 segments, with a first segment other than documents,
\* or with an empty second segment.
C12_ExtractionByShape ==
  \A w \in Watchers :
    wst[w].pc \in {"skipped", "extracted"}
    => LET s3_key == wst[w].s3_key
       IN /\ IsOriginalKey(s3_key) => wst[w].document_id = s3_key[2]
          /\ (Len(s3_key) < 4 \/ s3_key[1] # "documents" \/ s3_key[2] = "")
             => wst[w].document_id = NoId

\* C12, the case: the id extracted from documents/d1/original/<filename>.
C12_Witness ==
  /\ wst["w1"].pc = "extracted"
  /\ wst["w1"].s3_key = OriginalKey("d1")
  /\ wst["w1"].document_id = "d1"

FetchErrors == {"S3Error", "NoSuchKey", "PdfReadError"}

\* C13: an ingest invocation that caught an exception ends with `raise`; it
\* returns only from a skipped record or after its put_item; from its
\* update_item it goes on to put_item or raises; and when the exception came
\* from get_object or from the PDF parsing, the META items and the audit items
\* are as they were.
C13_IngestFailuresRaise ==
  [][\A w \in Watchers :
       wst'[w] # wst[w]
       => /\ wst'[w].error # "" => wst'[w].pc = "raised"
          /\ wst'[w].error \in FetchErrors => meta' = meta /\ audit' = audit
          /\ wst[w].pc = "update" => wst'[w].pc \in {"audit", "raised"}
          /\ wst[w].pc = "audit"
             => \/ wst'[w].pc = "raised"
                \/ /\ wst'[w].pc = "idle"
                   /\ <<wst[w].document_id, wst[w].now>> \in DOMAIN audit']_vars

\* C13, the case: a registered document, a file that is no PDF uploaded for it,
\* and the invocation ended by the error of the PDF parsing.
C13_Witness ==
  /\ wst["w1"].pc = "raised"
  /\ wst["w1"].error = "PdfReadError"
  /\ wst["w1"].s3_key = OriginalKey("d1")
  /\ "d1" \in hist.registered
  /\ meta["d1"].status = "REGISTERED"

\* the identity a GET request names: document_id, or proxy under other integrations
RequestedId(path_params) ==
  IF "document_id" \in DOMAIN path_params THEN path_params.document_id
  ELSE IF "proxy" \in DOMAIN path_params THEN path_params.proxy
  ELSE ""

\* C14: a GET is answered with 400 when it names no identity, with 404 when the
\* table has no META item for the identity, and with 200 and the whole item as
\* it is otherwise; it changes nothing in the table, the bucket or the stream.
C14_GetDocument ==
  [][(resp' # resp /\ resp'.op = "GET")
     => LET id == RequestedId(resp'.request)
        IN /\ meta' = meta /\ audit' = audit /\ objects' = objects /\ stream' = stream
           /\ resp'.error = ""
           /\ id = "" => resp'.statusCode = 400
           /\ (id # "" /\ id \notin DOMAIN meta) => resp'.statusCode = 404
           /\ (id # "" /\ id \in DOMAIN meta)
              => resp'.statusCode = 200 /\ resp'.body.document = meta[id]]_vars

\* C14, the case: the item of an uploaded document returned with 200.
C14_Witness ==
  /\ resp.op = "GET"
  /\ resp.statusCode = 200
  /\ resp.request = [document_id |-> "d1"]
  /\ resp.body.document.status = "UPLOADED"

\* the META item registration has to create for d at time t
RegisteredItem(d, t) ==
  [pk |-> <<"DOC", d>>, sk |-> "META#v1", document_id |-> d, filename |-> Filename,
   bucket |-> BucketName, s3_key |-> <<"documents", d, "original", Filename>>,
   status |-> "REGISTERED", version |-> 1, created_at |-> t, updated_at |-> t]

\* C15: a POST whose body is a JSON object with a non-empty string filename is
\* answered with 201 and has created one META item (status REGISTERED, version
\* 1, updated_at = created_at, s3_key documents/<id>/original/<filename>) and
\* one DOCUMENT_REGISTERED audit item; any other POST is answered with 400 and
\* writes nothing.
C15_Registration ==
  [][(resp' # resp /\ resp'.op = "POST")
     => IF resp'.request = RegistrationBody
        THEN /\ resp'.statusCode = 201
             /\ \E d \in Ids \ DOMAIN meta :
                  /\ DOMAIN meta' = DOMAIN meta \cup {d}
                  /\ meta'[d] = RegisteredItem(d, clock)
                  /\ \A e \in DOMAIN meta : meta'[e] = meta[e]
                  /\ DOMAIN audit' = DOMAIN audit \cup {<<d, clock>>}
                  /\ audit'[<<d, clock>>].event_type = "DOCUMENT_REGISTERED"
                  /\ \A k \in DOMAIN audit : audit'[k] = audit[k]
        ELSE /\ resp'.statusCode = 400
             /\ meta' = meta /\ audit' = audit /\ objects' = objects]_vars

\* C16: the text preview has at most 500 characters and no NUL character, and
\* is empty for a document without pages.
C16_PreviewCapped ==
  \A w \in Watchers :
    wst[w].pc = "parsed"
    => /\ TextLen(wst[w].text_preview) <= 500
       /\ \A i \in DOMAIN wst[w].text_preview : wst[w].text_preview[i].ch # "NUL"
       /\ wst[w].pdf_bytes.pages = 0 => wst[w].text_preview = <<>>

\* the number of letters in a text
RECURSIVE Letters(_)
Letters(t) ==
  IF t = <<>> THEN 0
  ELSE (IF Head(t).ch = "a" THEN Head(t).n ELSE 0) + Letters(Tail(t))

\* C16, the case: a first page with more than 500 letters and a NUL among
\* them, cut to a preview of 500.
C16_Witness ==
  /\ wst["w1"].pc = "parsed"
  /\ Letters(wst["w1"].pdf_bytes.text) > 500
  /\ \E i \in DOMAIN wst["w1"].pdf_bytes.text : wst["w1"].pdf_bytes.text[i].ch = "NUL"
  /\ TextLen(wst["w1"].text_preview) = 500

\* C17: a META item gets the status PROCESSED, or is changed while it has it,
\* only in a step before which its stored status was UPLOADED; a conditional
\* update that finds the item absent or with another status changes no item
\* and is not followed by the put of an audit item.
C17_ProcessedOnlyFromUploaded ==
  [][/\ \A d \in DOMAIN meta' :
          (/\ meta'[d].status = "PROCESSED"
           /\ ~(d \in DOMAIN meta /\ meta[d] = meta'[d]))
          => d \in DOMAIN meta /\ meta[d].status = "UPLOADED"
     /\ \A p \in Processors :
          (/\ pst[p].pc = "update"
           /\ pst'[p] # pst[p]
           /\ ~(DocOf(p) \in DOMAIN meta /\ meta[DocOf(p)].status = "UPLOADED"))
          => meta' = meta /\ pst'[p].pc # "audit"]_vars

\* C17, the case: the handler is about to try the conditional update with a
\* record whose image says UPLOADED while the stored status is PROCESSED.
C17_Witness ==
  \E p \in Processors :
    /\ pst[p].pc = "update"
    /\ Record(p).NewImage.status = "UPLOADED"
    /\ meta[DocOf(p)].status = "PROCESSED"

\* C18: once a conditional update of d's item has succeeded, a
\* DOCUMENT_PROCESSED audit item of d is eventually in the table.
C18_ProcessedIsAudited ==
  \A d \in Ids : (hist.processed[d] > 0) ~> (ProcessedAudits(d) # {})

FrameAttrs == {"pk", "sk", "document_id", "filename", "bucket", "s3_key", "version",
               "created_at"}

\* C19: a step that changes the META item of a registered document is the
\* update_item of an ingest or a processing invocation for that document; it
\* leaves pk, sk, document_id, filename, bucket, s3_key, version (1) and
\* created_at as they were and sets updated_at to the `now` of the invocation.
C19_UpdatesKeepIdentity ==
  [][\A d \in DOMAIN meta :
       (d \in hist.registered /\ meta'[d] # meta[d])
       => /\ \A a \in FrameAttrs : a \in DOMAIN meta'[d] /\ meta'[d][a] = meta[d][a]
          /\ meta'[d].version = 1
          /\ \/ \E w \in Watchers :
                  /\ wst[w].pc = "update" /\ wst'[w].pc = "audit"
                  /\ wst[w].document_id = d
                  /\ meta'[d].updated_at = wst[w].now
             \/ \E p \in Processors :
                  /\ pst[p].pc = "update" /\ pst'[p].pc = "audit"
                  /\ DocOf(p) = d
                  /\ meta'[d].updated_at = pst[p].now]_vars

\* C19, the case: a registered document whose item has been updated by the
\* ingest handler and by the processing handler, the last at a later time than
\* the registration.
C19_Witness ==
  /\ "d1" \in hist.registered
  /\ hist.uploads["d1"] > 0
  /\ meta["d1"].status = "PROCESSED"
  /\ meta["d1"].updated_at > meta["d1"].created_at

\* C20: a META item with the status PROCESSED names
\* documents/<id>/processed/summary.json as its output key, and the bucket has
\* an object at that key.
C20_ProcessedHasArtifact ==
  \A d \in DOMAIN meta :
    meta[d].status = "PROCESSED"
    => /\ meta[d].processed_output_key = <<"documents", d, "processed", "summary.json">>
       /\ meta[d].processed_output_key \in DOMAIN objects
       /\ objects[meta[d].processed_output_key].kind = "json"

\* C20, the case: a processed document with its artifact in the bucket.
C20_Witness ==
  /\ "d1" \in DOMAIN meta
  /\ meta["d1"].status = "PROCESSED"
  /\ ProcessedKey("d1") \in DOMAIN objects

\* C21: while a META item has the status PROCESSED, the summary stored at
\* documents/<id>/processed/summary.json carries the item's processed_at.
C21_ArtifactOfTheWinner ==
  \A d \in DOMAIN meta :
    (meta[d].status = "PROCESSED" /\ ProcessedKey(d) \in DOMAIN objects)
    => objects[ProcessedKey(d)].summary.processed_at = meta[d].processed_at

\* C22: a DOCUMENT_PROCESSED audit item is put for a document only when the
\* table already holds a DOCUMENT_UPLOADED audit item of that document.
C22_UploadedAuditFirst ==
  [][\A k \in DOMAIN audit' :
       (/\ audit'[k].event_type = "DOCUMENT_PROCESSED"
        /\ ~(k \in DOMAIN audit /\ audit[k] = audit'[k]))
       => \E j \in DOMAIN audit :
            j[1] = k[1] /\ audit[j].event_type = "DOCUMENT_UPLOADED"]_vars

\* no processing invocation has a write to do or a batch to take again
Quiet == \A p \in Processors : pst[p].pc = "idle"

\* C23: after finitely many deliveries the processing handler comes to rest:
\* from some point on no invocation is about to write to the bucket or the
\* table, and none is to be run again.
C23_Quiesces == <>[]Quiet

====
